---- MODULE Spec2Model ----
(***************************************************************************)
(* Order-state engine of the PG meal-ordering backend: the users and       *)
(* orders tables (models.py), the order helpers (helpers.py), the HTTP     *)
(* handlers that call them (routes.py) and the cutoff script (test.py).    *)
(***************************************************************************)
EXTENDS Integers, Sequences, FiniteSets, TLC

VARIABLES
    users,      \* rows of the users table
    orders,     \* rows of the orders table, in insertion order; a row's index is its id
    lastWrite,  \* per orders row: the kind of the last committed write to it
    last,       \* the request last handled and what its handler returned
    handlers,   \* per concurrent request handler: where it is in its request
    chat_histories, \* helpers.chat_histories: key -> (lines, timestamp)
    now,        \* datetime.utcnow(), in minutes since the start of November 2025
    script,     \* test.py: its inputs and the verdicts it has printed
    sweeper,    \* the thread of clear_old_histories_loop: where it is in a pass
    lists       \* the list objects of the session lines, where handlers share them

vars == <<users, orders, lastWrite, last, handlers, chat_histories, now, script,
         sweeper, lists>>

\* What the direct handlers never touch
session_vars == <<chat_histories, now, script, sweeper, lists>>

-----------------------------------------------------------------------------
(* Bounds of the model *)

\* how many rows the orders table may grow to
MaxOrders == 2

\* The messaging handles that send requests, and the display names they use
Handles == {"w1", "w2"}
Names == {"Asha"}

\* Date strings a direct request may carry: an ISO date, an ISO datetime of the
\* same day, a string that is no ISO date, and the empty string.
DateInputs == {"2025-11-19", "2025-11-19T21:31:00", "tomorrow", ""}

Flags == {0, 1}

-----------------------------------------------------------------------------
(* Values *)

\* Python's None, where a string is expected
None == "None"

\* datetime.fromisoformat(s).date() for the strings it accepts, as the day of
\* November 2025; a string outside the domain raises ValueError.
IsoDate ==
    ("2025-11-18" :> 18) @@ ("2025-11-19" :> 19)
        @@ ("2025-11-19T21:31:00" :> 19) @@ ("2025-11-20" :> 20)
        @@ ("2025-11-21" :> 21) @@ ("2025-11-22" :> 22)

fromisoformat_ok(s) == s \in DOMAIN IsoDate

\* date.isoformat() of a day of November 2025
isoformat(day) ==
    CASE day = 18 -> "2025-11-18"
      [] day = 19 -> "2025-11-19"
      [] day = 20 -> "2025-11-20"
      [] day = 21 -> "2025-11-21"
      [] OTHER -> "2025-11-22"

\* Instants are minutes since the start of November 2025, day 1 at 00:00
\* being minute 1440.
At(day, hour, minute) == day * 1440 + hour * 60 + minute
date_of(t) == t \div 1440
time_of(t) == t % 1440

\* test.py:5-6, utcnow() + timedelta(hours=5, minutes=30)
ist(t) == t + (5 * 60 + 30)
utc_of_ist(t) == t - (5 * 60 + 30)

\* The instants at which requests arrive, by their India time: on the 19th
\* before the dinner cutoff and after the breakfast/lunch cutoff.
Instants == {utc_of_ist(At(19, 12, 29)), utc_of_ist(At(19, 21, 31))}

StartInstant == utc_of_ist(At(19, 12, 29))

MEAL_PRICES == [breakfast |-> 40, lunch |-> 70, dinner |-> 40]
Meals == DOMAIN MEAL_PRICES

\* dict.get(k) is truthy: the key is there and its value is not 0
FlagSet(order_obj, k) == k \in DOMAIN order_obj /\ order_obj[k] # 0

\* dict.get("date") is truthy: the key is there and the string is not empty
DateGiven(order_obj) == "date" \in DOMAIN order_obj /\ order_obj["date"] # ""

calculate_total_from_order_obj(order_obj) ==
    (IF FlagSet(order_obj, "breakfast") THEN MEAL_PRICES.breakfast ELSE 0)
  + (IF FlagSet(order_obj, "lunch") THEN MEAL_PRICES.lunch ELSE 0)
  + (IF FlagSet(order_obj, "dinner") THEN MEAL_PRICES.dinner ELSE 0)

\* The value of an Order's total_amount attribute is modelled as a set: {n}
\* for the integer n, {} for a value that is no integer.
\*
\* models.py:27 ends in a comma, so the class attribute Order.total_amount is
\* a 1-tuple holding a Column and not a mapped column: the orders table has no
\* such column, a commit writes no total, and an Order loaded from the table
\* reads the class attribute. Only the object an upsert has just assigned to
\* carries the integer, as a plain instance attribute.
Order_total_amount == {}

\* The attributes of an Order loaded from row i of the table
LoadOrder(os, i) ==
    [id |-> i,
     user_id |-> os[i].user_id,
     order_date |-> os[i].order_date,
     breakfast |-> os[i].breakfast,
     lunch |-> os[i].lunch,
     dinner |-> os[i].dinner,
     canceled |-> os[i].canceled,
     total_amount |-> Order_total_amount]

\* price(breakfast) + price(lunch) + price(dinner) over a row's own flags
PriceOfFlags(o) ==
    (IF o.breakfast THEN MEAL_PRICES.breakfast ELSE 0)
  + (IF o.lunch THEN MEAL_PRICES.lunch ELSE 0)
  + (IF o.dinner THEN MEAL_PRICES.dinner ELSE 0)

\* models.py:7-14, a row of the users table; age is {} or {n}, address is
\* None or a string
User(id, whatsapp_id, username, age, address) ==
    [id |-> id, whatsapp_id |-> whatsapp_id, username |-> username,
     age |-> age, address |-> address]

-----------------------------------------------------------------------------
(* Queries *)

\* User.query.filter_by(whatsapp_id=w).first(): whatsapp_id is unique
UserByHandle(us, w) == {u \in us : u.whatsapp_id = w}

\* Order.query.filter_by(user_id=, order_date=): the ids of the matching rows
OrdersOf(os, user_id, order_date) ==
    {i \in 1..Len(os) : os[i].user_id = user_id /\ os[i].order_date = order_date}

\* Order.query.filter_by(user_id=, order_date=, canceled=False)
ActiveOrdersOf(os, user_id, order_date) ==
    {i \in OrdersOf(os, user_id, order_date) : ~os[i].canceled}

\* .first() has no ORDER BY: any one of the matching rows, 0 for None
First(S) == IF S = {} THEN {0} ELSE S

-----------------------------------------------------------------------------
(* helpers.py *)

\* What a helper call would leave behind if it did its write twice
Outcome_written_twice(os, ret, exc, total) ==
    [orders |-> IF ret # 0 THEN Append(os, os[ret]) ELSE os,
     ret |-> ret, exc |-> exc, total_amount |-> total]

\* What a helper call leaves behind: the table, the id of the Order it
\* returned (0 for None or when it raised), the exception it raised, and the
\* total_amount attribute of the returned object.
Outcome(os, ret, exc, total) ==
    [orders |-> os, ret |-> ret, exc |-> exc, total_amount |-> total]

\* The lookup of an upsert that never finds the existing Order
upsert_existing_never(os, user_id, order_date) == {0}

\* The lookup of an upsert that, like the cancel's, skips canceled Orders
upsert_existing_active_only(os, user_id, order_date) ==
    First(ActiveOrdersOf(os, user_id, order_date))

\* helpers.py:53, the lookup of upsert_order_for_user
upsert_existing(os, user_id, order_date) ==
    First(OrdersOf(os, user_id, order_date))

\* The lookup of a cancel that does not filter on canceled=False
cancel_existing_any(os, user_id, order_date) ==
    First(OrdersOf(os, user_id, order_date))

\* helpers.py:78, the lookup of cancel_order_by_user_date
cancel_existing(os, user_id, order_date) ==
    First(ActiveOrdersOf(os, user_id, order_date))

\* The assignments of an upsert that leaves canceled as it was
upsert_update_keeps_canceled(row, b, l, d) ==
    [row EXCEPT !.breakfast = b, !.lunch = l, !.dinner = d]

\* helpers.py:59-63, the assignments to the existing Order
upsert_update(row, b, l, d) ==
    [row EXCEPT !.breakfast = b, !.lunch = l, !.dinner = d, !.canceled = FALSE]

\* The assignment of a cancel that also clears the meals of the Order
cancel_update_clears_meals(row) ==
    [row EXCEPT !.canceled = TRUE, !.breakfast = FALSE, !.lunch = FALSE,
                !.dinner = FALSE]

\* helpers.py:81, the assignment to the existing Order
cancel_update(row) == [row EXCEPT !.canceled = TRUE]

upsert_order_for_user(os, user_id, order_obj) ==
    IF ~DateGiven(order_obj)
    THEN {Outcome(os, 0, "ValueError", {})}
    ELSE IF ~fromisoformat_ok(order_obj["date"])
    THEN {Outcome(os, 0, "ValueError", {})}
    ELSE
        LET order_date == IsoDate[order_obj["date"]]
            b == FlagSet(order_obj, "breakfast")
            l == FlagSet(order_obj, "lunch")
            d == FlagSet(order_obj, "dinner")
            total == calculate_total_from_order_obj(order_obj)
        IN  { IF existing # 0
              THEN Outcome([os EXCEPT ![existing] = upsert_update(@, b, l, d)],
                           existing, "none", {total})
              ELSE Outcome(Append(os, [user_id |-> user_id,
                                       order_date |-> order_date,
                                       breakfast |-> b,
                                       lunch |-> l,
                                       dinner |-> d,
                                       canceled |-> FALSE]),
                           Len(os) + 1, "none", {total})
              : existing \in upsert_existing(os, user_id, order_date) }

\* A cancel that lets the ValueError of fromisoformat out
cancel_unparsed_raises(os) == {Outcome(os, 0, "ValueError", {})}

\* helpers.py:74-77, the date does not parse: None, before any query
cancel_unparsed(os) == {Outcome(os, 0, "none", {})}

cancel_order_by_user_date(os, user_id, date_str) ==
    IF ~fromisoformat_ok(date_str)
    THEN cancel_unparsed(os)
    ELSE
        LET order_date == IsoDate[date_str]
        IN  { IF existing = 0
              THEN Outcome(os, 0, "none", {})
              ELSE Outcome([os EXCEPT ![existing] = cancel_update(@)],
                           existing, "none", Order_total_amount)
              : existing \in cancel_existing(os, user_id, order_date) }

\* The record of committed writes, kept beside the table: what kind of write
\* the helper's outcome `out` was, and to which row.
Written(lw, out, kind) ==
    IF out.ret = 0 THEN lw
    ELSE IF out.ret > Len(lw) THEN Append(lw, kind)
    ELSE [lw EXCEPT ![out.ret] = kind]

\* jsonify(order.as_dict()): the total_amount must be an integer to serialise
as_dict_status(total) == IF total = {} THEN 500 ELSE 200

-----------------------------------------------------------------------------
(* routes.py: the direct handlers, one request at a time *)

\* What is kept of the request last handled: the handler, the (user id, date)
\* its helper was called with (<<0, 0>> when it was not called, or with a date
\* that does not parse), the HTTP status of
\* its response, the id of the Order its helper returned (0: none), whether
\* that Order was created by this request, what the table held for the
\* request's (user, date) before the request, and whether the request repeats
\* the one handled just before it: an upsert of the same row with the same
\* flags after an upsert, a cancel of the same (user, date) after a cancel
\* that found its order. For a message (POST /process) also: the branch of
\* process that answered, the reply of the response ("": none), the meal
\* keys the model's order object carried, the key of the session the handler
\* used, the history lines it handed to the language model, the answer
\* of the language model, the date of the request ("": none) and the date
\* string its helper was called with ("": an empty date, or no call). For a
\* summary (GET /summary): the date string it answers for and its counts.
NoCounts ==
    [breakfast_count |-> 0, lunch_count |-> 0, dinner_count |-> 0,
     total_amount |-> 0]

Handled(op, key, status, ret, created, before, repeat) ==
    [op |-> op, key |-> key, status |-> status, ret |-> ret,
     created |-> created, before |-> before, repeat |-> repeat,
     path |-> "", reply |-> "", given |-> {},
     session |-> <<"", "">>, history |-> <<>>, answer |-> [kind |-> "none"],
     request_date |-> "", date_used |-> "", counts |-> NoCounts]

NoKey == <<0, 0>>

Failed(op, status) == Handled(op, NoKey, status, 0, FALSE, "none", FALSE)

KeyOf(user_id, date_s) ==
    IF fromisoformat_ok(date_s) THEN <<user_id, IsoDate[date_s]>> ELSE NoKey

\* What the table holds for (user_id, date_s): no row (also when the date does
\* not parse), a row that is not canceled, or canceled rows only
BeforeOf(os, user_id, date_s) ==
    IF ~fromisoformat_ok(date_s) THEN "none"
    ELSE IF OrdersOf(os, user_id, IsoDate[date_s]) = {} THEN "none"
    ELSE IF ActiveOrdersOf(os, user_id, IsoDate[date_s]) # {} THEN "active"
    ELSE "canceled"

SameFlags(row, b, l, d) ==
    /\ row.breakfast = (b # 0)
    /\ row.lunch = (l # 0)
    /\ row.dinner = (d # 0)

(* The concurrent handlers' state; they are idle while requests are handled
   one at a time. *)

Procs == {"h1", "h2"}

NoRow ==
    [user_id |-> 0, order_date |-> 0, breakfast |-> FALSE, lunch |-> FALSE,
     dinner |-> FALSE, canceled |-> FALSE]

\* test.py before it runs: order_date (line 3) and the flags (lines 30-32)
NotRun(order_date, breakfast, lunch, dinner) ==
    [order_date |-> order_date, breakfast |-> breakfast, lunch |-> lunch,
     dinner |-> dinner, ran |-> FALSE, out |-> <<>>]

\* The sweeper between two passes, helpers.py:18
Waiting == [pc |-> "wait", keys_to_remove |-> {}]

\* A handler between requests, with the status of its last response
Idle(status) ==
    [pc |-> "idle", user_id |-> 0, order_date |-> 0, b |-> FALSE, l |-> FALSE,
     d |-> FALSE, existing |-> 0, loaded |-> NoRow, status |-> status]

Init ==
    /\ users = {}
    /\ orders = <<>>
    /\ lastWrite = <<>>
    /\ last = Failed("none", 0)
    /\ handlers = [h \in Procs |-> Idle(0)]
    /\ chat_histories = <<>>
    /\ now = StartInstant
    /\ script = NotRun("2025-11-19", 1, 1, 1)
    /\ sweeper = Waiting
    /\ lists = <<>>

\* POST /users; age {} and address None when the request has none
add_user(w, name, age, address) ==
    /\ UNCHANGED <<orders, lastWrite>>
    /\ IF w = "" \/ name = ""
       THEN /\ users' = users
            /\ last' = Failed("add_user", 400)
       ELSE IF UserByHandle(users, w) # {}
       THEN /\ users' = users
            /\ last' = Failed("add_user", 400)
       ELSE /\ users' = users \cup {User(Cardinality(users) + 1, w, name,
                                          age, address)}
            /\ last' = Failed("add_user", 200)

\* POST /orders
add_order_direct(w, date_s, breakfast, lunch, dinner) ==
    /\ UNCHANGED users
    /\ IF w = ""
       THEN /\ UNCHANGED <<orders, lastWrite>>
            /\ last' = Failed("add_order_direct", 400)
       ELSE IF UserByHandle(users, w) = {}
       THEN /\ UNCHANGED <<orders, lastWrite>>
            /\ last' = Failed("add_order_direct", 404)
       ELSE IF ~fromisoformat_ok(date_s)
       THEN /\ UNCHANGED <<orders, lastWrite>>
            /\ last' = Failed("add_order_direct", 400)
       ELSE \E u \in UserByHandle(users, w) :
            \E out \in upsert_order_for_user(orders, u.id,
                           [date |-> date_s,
                            breakfast |-> IF breakfast # 0 THEN 1 ELSE 0,
                            lunch |-> IF lunch # 0 THEN 1 ELSE 0,
                            dinner |-> IF dinner # 0 THEN 1 ELSE 0]) :
                /\ Len(out.orders) <= MaxOrders
                /\ orders' = out.orders
                /\ lastWrite' = Written(lastWrite, out, "upsert")
                /\ last' = Handled("add_order_direct",
                                   KeyOf(u.id, date_s),
                                   as_dict_status(out.total_amount),
                                   out.ret,
                                   out.ret > Len(orders),
                                   BeforeOf(orders, u.id, date_s),
                                   /\ last.op = "add_order_direct"
                                   /\ last.ret = out.ret
                                   /\ out.ret <= Len(orders)
                                   /\ SameFlags(orders[out.ret],
                                                breakfast, lunch, dinner))

\* POST /orders/cancel_by_date
cancel_by_date(w, date_s) ==
    /\ UNCHANGED users
    /\ IF w = "" \/ date_s = ""
       THEN /\ UNCHANGED <<orders, lastWrite>>
            /\ last' = Failed("cancel_by_date", 400)
       ELSE IF UserByHandle(users, w) = {}
       THEN /\ UNCHANGED <<orders, lastWrite>>
            /\ last' = Failed("cancel_by_date", 404)
       ELSE \E u \in UserByHandle(users, w) :
            \E out \in cancel_order_by_user_date(orders, u.id, date_s) :
                /\ orders' = out.orders
                /\ lastWrite' = Written(lastWrite, out, "cancel")
                /\ last' = [Handled("cancel_by_date",
                                   KeyOf(u.id, date_s),
                                   IF out.exc # "none" THEN 500
                                   ELSE IF out.ret = 0 THEN 404
                                   ELSE as_dict_status(out.total_amount),
                                   out.ret, FALSE,
                                   BeforeOf(orders, u.id, date_s),
                                   /\ last.op = "cancel_by_date"
                                   /\ last.ret # 0
                                   /\ fromisoformat_ok(date_s)
                                   /\ last.ret \in OrdersOf(orders, u.id,
                                                            IsoDate[date_s]))
                                EXCEPT !.date_used = date_s]

Next ==
    \/ \E w \in Handles \cup {""}, name \in Names \cup {""} :
            add_user(w, name, {}, None) /\ UNCHANGED <<handlers, session_vars>>
    \/ \E w \in Handles \cup {""}, date_s \in DateInputs,
          breakfast \in Flags, lunch \in Flags, dinner \in Flags :
            add_order_direct(w, date_s, breakfast, lunch, dinner)
                /\ UNCHANGED <<handlers, session_vars>>
    \/ \E w \in Handles \cup {""}, date_s \in DateInputs :
            cancel_by_date(w, date_s) /\ UNCHANGED <<handlers, session_vars>>

Spec == Init /\ [][Next]_vars

-----------------------------------------------------------------------------
(* test.py: the cutoff script, for an order date and the instant utcnow() *)

\* the cutoffs an hour late
breakfast_lunch_cutoff_late == 22 * 60 + 30
dinner_cutoff_late == 13 * 60 + 30

breakfast_lunch_cutoff == 21 * 60 + 30
dinner_cutoff == 12 * 60 + 30

\* test.py:18-25
intent(order_date, t) ==
    IF order_date = date_of(ist(t)) + 1 THEN "tomorrow"
    ELSE IF order_date = date_of(ist(t)) THEN "today"
    ELSE ""

\* test.py:34-38
can_order_breakfast_lunch(order_date, t) ==
    ~(time_of(ist(t)) > breakfast_lunch_cutoff /\ intent(order_date, t) = "tomorrow")

\* test.py:39-43
can_order_dinner(order_date, t) ==
    ~(time_of(ist(t)) > dinner_cutoff)

\* Every requested meal passes the script's check
cutoff_allows(b, l, d, order_date, t) ==
    /\ (b \/ l) => can_order_breakfast_lunch(order_date, t)
    /\ d => can_order_dinner(order_date, t)

\* The order dates and instants the script is run for: the day before
\* "today" (19 November, India time) to three days after it, and the
\* minutes around both cutoffs
ScriptDates == {"2025-11-18", "2025-11-19", "2025-11-20", "2025-11-21", "2025-11-22"}
ScriptTimes == {<<0, 0>>, <<12, 29>>, <<12, 30>>, <<12, 31>>,
                <<21, 29>>, <<21, 30>>, <<21, 31>>, <<23, 59>>}
ScriptInstants == {utc_of_ist(At(19, hm[1], hm[2])) : hm \in ScriptTimes}

\* test.py:36, 38, 41, 43: a printed verdict
Line(verdict, meals, order_date, t) ==
    [verdict |-> verdict, meals |-> meals, intent |-> intent(order_date, t)]

\* test.py:34-38
breakfast_lunch_lines(breakfast, lunch, order_date, t) ==
    IF breakfast = 1 \/ lunch = 1
    THEN IF can_order_breakfast_lunch(order_date, t)
         THEN <<Line("can", "breakfast or lunch", order_date, t)>>
         ELSE <<Line("cannot", "breakfast or lunch", order_date, t)>>
    ELSE <<>>

\* test.py:39-43
dinner_lines(dinner, order_date, t) ==
    IF dinner = 1
    THEN IF can_order_dinner(order_date, t)
         THEN <<Line("can", "dinner", order_date, t)>>
         ELSE <<Line("cannot", "dinner", order_date, t)>>
    ELSE <<>>

\* One run of the script, test.py:1-44
test_script ==
    /\ ~script.ran
    /\ script' = [script EXCEPT
            !.ran = TRUE,
            !.out = breakfast_lunch_lines(script.breakfast, script.lunch,
                                          IsoDate[script.order_date], now)
                    \o dinner_lines(script.dinner, IsoDate[script.order_date], now)]
    /\ UNCHANGED <<users, orders, lastWrite, last, handlers, chat_histories, now,
                   sweeper, lists>>

InitScript ==
    /\ users = {}
    /\ orders = <<>>
    /\ lastWrite = <<>>
    /\ last = Failed("none", 0)
    /\ handlers = [h \in Procs |-> Idle(0)]
    /\ chat_histories = <<>>
    /\ now \in ScriptInstants
    /\ \E order_date \in ScriptDates, breakfast \in Flags, lunch \in Flags,
          dinner \in Flags :
            script = NotRun(order_date, breakfast, lunch, dinner)
    /\ sweeper = Waiting
    /\ lists = <<>>

NextScript == test_script

SpecScript == InitScript /\ [][NextScript]_vars

-----------------------------------------------------------------------------
(* routes.py: POST /process, one message at a time *)

\* how many lines a session may grow to
MaxTurns == 2

\* how many lines a session may grow to where a session gets a second message
MaxSessionTurns == 4

\* What a message request carries: (message, user_id), the user's display
\* name ("": none) and the default date ("": none)
Senders == {<<"hi", "w1">>, <<"", "w1">>, <<"hi", "">>}
ProcessNames == {"Asha", ""}
RequestDates == {"", "2025-11-19"}

\* What the language model answers: it fails, it answers text that is no
\* JSON, it answers JSON that is no object (an array) or an object whose
\* counter is no number, or it answers a JSON object of the shapes the
\* prompt asks for, with or without some of their keys.
LLMJson ==
    { [reply |-> "ok", counter |-> 1,
       order |-> [breakfast |-> 1, lunch |-> 1, dinner |-> 0, date |-> "2025-11-20"]],
      [reply |-> "ok", counter |-> 1,
       order |-> [dinner |-> 1, date |-> "2025-11-20"]],
      [reply |-> "ok", counter |-> 1, order |-> [breakfast |-> 1]],
      [reply |-> "ok", counter |-> 1, order |-> [lunch |-> 1, date |-> ""]],
      [reply |-> "ok", counter |-> 1, order |-> [lunch |-> 1, date |-> "tomorrow"]],
      [reply |-> "Order canceled.", counter |-> 1, action |-> "cancel",
       date |-> "2025-11-20"],
      [counter |-> 1, action |-> "cancel"],
      [reply |-> "Order canceled.", counter |-> 1, action |-> "cancel",
       date |-> "2025-11-20", order |-> [lunch |-> 1, date |-> "2025-11-19"]],
      [reply |-> "which day?", counter |-> 0],
      [reply |-> "which day?", counter |-> 0,
       order |-> [breakfast |-> 1, date |-> "2025-11-20"]] }

LLMOutputs ==
    {[kind |-> "raise"], [kind |-> "text", text |-> "hello"],
     [kind |-> "array", text |-> "[1]"],
     [kind |-> "bad_counter", text |-> "{counter: one}"]}
        \cup {[kind |-> "json", parsed |-> p] : p \in LLMJson}

\* chat_histories.get(key, ([], utcnow()))[0]
history_of(ch, key) == IF key \in DOMAIN ch THEN ch[key].lines ELSE <<>>

\* chat_histories[key] = (lines, utcnow())
store_history(ch, key, lines, t) ==
    [k \in DOMAIN ch \cup {key} |->
        IF k = key THEN [lines |-> lines, ts |-> t] ELSE ch[k]]

\* A get_or_create_user that writes the whole row of the user it finds
get_or_create_user_overwrites(us, whatsapp_id, username) ==
    IF UserByHandle(us, whatsapp_id) # {}
    THEN LET user == CHOOSE u \in UserByHandle(us, whatsapp_id) : TRUE
         IN  [users |-> (us \ {user})
                            \cup {User(user.id, whatsapp_id,
                                       IF username # "" THEN username ELSE "Unknown",
                                       {}, None)},
              id |-> user.id]
    ELSE [users |-> us \cup {User(Cardinality(us) + 1, whatsapp_id,
                                  IF username # "" THEN username ELSE "Unknown",
                                  {}, None)},
          id |-> Cardinality(us) + 1]

\* helpers.py:24-34; username "" stands for None
get_or_create_user(us, whatsapp_id, username) ==
    IF UserByHandle(us, whatsapp_id) # {}
    THEN LET user == CHOOSE u \in UserByHandle(us, whatsapp_id) : TRUE
         IN  [users |-> IF username # "" /\ user.username # username
                        THEN (us \ {user}) \cup {[user EXCEPT !.username = username]}
                        ELSE us,
              id |-> user.id]
    ELSE [users |-> us \cup {User(Cardinality(us) + 1, whatsapp_id,
                                  IF username # "" THEN username ELSE "Unknown",
                                  {}, None)},
          id |-> Cardinality(us) + 1]

\* routes.py:248-257, what process reads from the parsed answer
parsed_of(llm) == IF llm.kind = "json" THEN llm.parsed ELSE <<>>
parsed_truthy(llm) == llm.kind = "json" /\ DOMAIN llm.parsed # {}
reply_of(llm) ==
    IF parsed_truthy(llm)
    THEN IF "reply" \in DOMAIN llm.parsed THEN llm.parsed["reply"] ELSE ""
    ELSE IF llm.kind = "text" THEN llm.text ELSE ""
\* parsed.get("reply", default), routes.py:274, 279, 288
reply_or(llm, default) ==
    IF "reply" \in DOMAIN parsed_of(llm) THEN parsed_of(llm)["reply"] ELSE default
\* A counter that is 1 whatever the answer says
counter_of_always_one(llm) == 1

counter_of(llm) ==
    IF parsed_truthy(llm) /\ "counter" \in DOMAIN llm.parsed
    THEN llm.parsed["counter"] ELSE 0
order_of(llm) ==
    IF parsed_truthy(llm) /\ "order" \in DOMAIN llm.parsed
    THEN llm.parsed["order"] ELSE <<>>
action_of(llm) ==
    IF parsed_truthy(llm) /\ "action" \in DOMAIN llm.parsed
    THEN llm.parsed["action"] ELSE None

\* routes.py:199-200 and 254-257, the date the request resolves to
default_date(date_req, t) ==
    IF date_req = "" THEN isoformat(date_of(t) + 1) ELSE date_req

resolved_date(llm, date_in) ==
    IF DOMAIN order_of(llm) # {} /\ DateGiven(order_of(llm))
    THEN order_of(llm)["date"]
    ELSE IF parsed_truthy(llm) /\ DateGiven(parsed_of(llm))
    THEN parsed_of(llm)["date"]
    ELSE date_in

\* routes.py:283-286, the order object handed to the upsert
process_order_obj(order_obj, date_in) ==
    [date |-> IF "date" \in DOMAIN order_obj THEN order_obj["date"] ELSE date_in,
     breakfast |-> IF "breakfast" \in DOMAIN order_obj
                   THEN order_obj["breakfast"] ELSE 0,
     lunch |-> IF "lunch" \in DOMAIN order_obj THEN order_obj["lunch"] ELSE 0,
     dinner |-> IF "dinner" \in DOMAIN order_obj THEN order_obj["dinner"] ELSE 0]

ProcessHandled(path, key, status, ret, created, before, reply) ==
    [Handled("process", key, status, ret, created, before, FALSE)
        EXCEPT !.path = path, !.reply = reply]

process(message, user_id, user_name, date_req, llm) ==
    /\ UNCHANGED <<handlers, now, script, sweeper, lists>>
    /\ IF message = "" \/ user_id = ""
       THEN /\ UNCHANGED <<users, orders, lastWrite, chat_histories>>
            /\ last' = ProcessHandled("bad_request", NoKey, 400, 0, FALSE, "none", "")
       ELSE
        LET date_in0 == default_date(date_req, now)
            key == <<user_id, date_in0>>
            history == Append(history_of(chat_histories, key), <<"User", message>>)
            heard == store_history(chat_histories, key, history, now)
            date_in == resolved_date(llm, date_in0)
            got == get_or_create_user(users, user_id, user_name)
            reply == reply_of(llm)
            Answered(path, order_key, status, ret, created, before, text) ==
                [ProcessHandled(path, order_key, status, ret, created, before, text)
                    EXCEPT !.session = key, !.history = history, !.answer = llm,
                           !.request_date = date_req]
            answered(text) ==
                store_history(heard, key,
                              Append(history_of(heard, key), <<"Bot", text>>), now)
        IN
        /\ IF llm.kind = "raise"
           THEN \* routes.py:231-233
                /\ UNCHANGED <<users, orders, lastWrite>>
                /\ chat_histories' = heard
                /\ last' = Answered("llm_error", NoKey, 500, 0, FALSE, "none",
                                          "Sorry, LLM error")
           ELSE IF llm.kind \in {"array", "bad_counter"}
           THEN \* routes.py:249-250: list.get and int("one") raise
                /\ UNCHANGED <<users, orders, lastWrite>>
                /\ chat_histories' = heard
                /\ last' = Answered("parse_raised", NoKey, 500, 0, FALSE, "none", "")
           ELSE IF counter_of(llm) = 1 /\ action_of(llm) = "cancel"
           THEN \* routes.py:270-281
                LET cancel_date == IF DateGiven(parsed_of(llm))
                                   THEN parsed_of(llm)["date"] ELSE date_in
                IN  \E out \in cancel_order_by_user_date(orders, got.id, cancel_date) :
                    LET text == IF out.ret # 0
                                THEN reply_or(llm, "Order for the date canceled.")
                                ELSE reply_or(llm, "No active order found for the date.")
                    IN  /\ users' = got.users
                        /\ orders' = out.orders
                        /\ lastWrite' = Written(lastWrite, out, "cancel")
                        /\ chat_histories' = answered(text)
                        /\ last' = [Answered(
                                IF out.ret # 0 THEN "cancel" ELSE "cancel_none",
                                KeyOf(got.id, cancel_date),
                                IF out.ret # 0 THEN as_dict_status(out.total_amount)
                                ELSE 200,
                                out.ret, FALSE,
                                BeforeOf(orders, got.id, cancel_date), text)
                                    EXCEPT !.date_used = cancel_date]
           ELSE IF counter_of(llm) = 1 /\ DOMAIN order_of(llm) # {}
           THEN \* routes.py:282-289
                LET order_obj == process_order_obj(order_of(llm), date_in)
                IN  \E out \in upsert_order_for_user(orders, got.id, order_obj) :
                        /\ Len(out.orders) <= MaxOrders
                        /\ users' = got.users
                        /\ orders' = out.orders
                        /\ lastWrite' = Written(lastWrite, out, "upsert")
                        /\ IF out.exc # "none"
                           THEN \* the exception leaves process: no reply
                                /\ chat_histories' = heard
                                /\ last' = [Answered("upsert_raised", NoKey, 500,
                                                           0, FALSE, "none", "")
                                               EXCEPT !.date_used = order_obj["date"]]
                           ELSE /\ chat_histories' =
                                        answered(reply_or(llm, "Order recorded."))
                                /\ last' = [Answered(
                                        "upsert", KeyOf(got.id, order_obj["date"]),
                                        as_dict_status(out.total_amount),
                                        out.ret, out.ret > Len(orders),
                                        BeforeOf(orders, got.id, order_obj["date"]),
                                        reply_or(llm, "Order recorded."))
                                    EXCEPT !.given = DOMAIN order_of(llm) \cap Meals,
                                           !.date_used = order_obj["date"]]
           ELSE \* routes.py:267, 291-296
                /\ users' = got.users
                /\ UNCHANGED <<orders, lastWrite>>
                /\ chat_histories' = answered(reply)
                /\ last' = Answered("clarify", NoKey, 200, 0, FALSE, "none", reply)

\* Time passes between requests
Tick ==
    /\ \E t \in Instants : t > now /\ now' = t
    /\ UNCHANGED <<users, orders, lastWrite, last, handlers, chat_histories, script, sweeper, lists>>

\* The session of the request has room for the message's line
SessionRoom(user_id, date_req, turns) ==
    Len(history_of(chat_histories, <<user_id, default_date(date_req, now)>>)) + 1
        < turns

NextProcess ==
    \/ \E sender \in Senders, user_name \in ProcessNames,
          date_req \in RequestDates, llm \in LLMOutputs :
            /\ SessionRoom(sender[2], date_req, MaxTurns)
            /\ process(sender[1], sender[2], user_name, date_req, llm)
    \/ Tick

SpecProcess == Init /\ [][NextProcess]_vars

-----------------------------------------------------------------------------
(* routes.py: POST /users and POST /process, one request at a time *)

\* What the requests carry about a user: the display names of the messages
\* (POST /users registers under Names) and the age and address of POST /users
UserNames == {"Asha", "Bina"}
Profiles == {<<{}, None>>, <<{30}, "Kochi">>}

\* The answer of the language model that asks back
AskBack == {llm \in LLMOutputs : reply_of(llm) = "which day?" /\ DOMAIN order_of(llm) = {}}

NextUsers ==
    \/ \E w \in Handles, name \in Names, profile \in Profiles :
            add_user(w, name, profile[1], profile[2])
                /\ UNCHANGED <<handlers, session_vars>>
    \/ \E w \in Handles, user_name \in UserNames \cup {""}, llm \in AskBack :
            /\ SessionRoom(w, "2025-11-19", MaxSessionTurns)
            /\ process("hi", w, user_name, "2025-11-19", llm)

SpecUsers == Init /\ [][NextUsers]_vars

-----------------------------------------------------------------------------
(* helpers.py: the session sweeper thread beside POST /process *)

\* A session is old when utcnow() - ts > timedelta(hours=24), helpers.py:14
Stale(ch, k, t) == t - ch[k].ts > 24 * 60

\* A pass of clear_old_histories_loop that finds something to delete. Passes
\* are an hour apart (helpers.py:18): a session is deleted between 24 and 25
\* hours after its last write. The pass is two steps, and a request handled
\* by another thread may fall between them.
\* helpers.py:11-15, the sessions that are old now
clear_old_histories_scan ==
    /\ sweeper.pc = "wait"
    /\ \E k \in DOMAIN chat_histories : Stale(chat_histories, k, now)
    /\ sweeper' = [pc |-> "delete",
                   keys_to_remove |->
                        {k \in DOMAIN chat_histories : Stale(chat_histories, k, now)}]
    /\ UNCHANGED <<users, orders, lastWrite, last, handlers, chat_histories, now,
                   script, lists>>

\* helpers.py:16-17, del chat_histories[k] for each of them
clear_old_histories_delete ==
    /\ sweeper.pc = "delete"
    /\ chat_histories' =
            [k \in DOMAIN chat_histories \ sweeper.keys_to_remove |-> chat_histories[k]]
    /\ sweeper' = Waiting
    /\ UNCHANGED <<users, orders, lastWrite, last, handlers, now, script, lists>>

\* The instants of the messages: the second is 24 hours 30 minutes after the
\* first, before or after the sweeper's pass of that hour
SessionInstants == {StartInstant, StartInstant + 24 * 60 + 30}

\* The answers of the language model that order nothing
SessionLLM == {llm \in LLMOutputs : counter_of(llm) = 0}

\* Time passes between requests and between passes of the sweeper
TickSession ==
    /\ sweeper.pc = "wait"
    /\ \E t \in SessionInstants : t > now /\ now' = t
    /\ UNCHANGED <<users, orders, lastWrite, last, handlers, chat_histories, script, sweeper, lists>>

NextSession ==
    \/ \E date_req \in RequestDates, llm \in SessionLLM :
            /\ SessionRoom("w1", date_req, MaxSessionTurns)
            /\ process("hi", "w1", "Asha", date_req, llm)
    \/ TickSession
    \/ clear_old_histories_scan
    \/ clear_old_histories_delete

SpecSession == Init /\ [][NextSession]_vars

-----------------------------------------------------------------------------
(* The same handlers run concurrently: a request's query and its commit are
   two steps, and another handler's steps may fall between them. Each request
   has its own database session, the orders table has no unique constraint on
   (user_id, order_date) (models.py:21-22), and no lock is taken. *)

\* The requests the concurrent handlers receive
ConcHandles == {"w1"}
ConcDates == {"2025-11-19"}
ConcFlags == {<<1, 0, 0>>, <<0, 1, 0>>, <<1, 1, 0>>}

\* db.session.commit() of a loaded Order: the UPDATE sets the columns whose
\* assigned value differs from the loaded one, on the row as it is now.
FlushUpdate(row, loaded, assigned) ==
    [row EXCEPT
        !.breakfast = IF assigned.breakfast # loaded.breakfast
                      THEN assigned.breakfast ELSE @,
        !.lunch = IF assigned.lunch # loaded.lunch THEN assigned.lunch ELSE @,
        !.dinner = IF assigned.dinner # loaded.dinner THEN assigned.dinner ELSE @,
        !.canceled = IF assigned.canceled # loaded.canceled
                     THEN assigned.canceled ELSE @]

InitConc ==
    /\ users = {User(1, "w1", "Asha", {}, None)}
    /\ orders = <<>>
    /\ lastWrite = <<>>
    /\ last = Failed("add_user", 200)
    /\ handlers = [h \in Procs |-> Idle(0)]
    /\ chat_histories = <<>>
    /\ now = StartInstant
    /\ script = NotRun("2025-11-19", 1, 1, 1)
    /\ sweeper = Waiting
    /\ lists = <<>>

\* POST /orders up to the query of helpers.py:53
upsert_query(h, w, date_s, breakfast, lunch, dinner) ==
    /\ handlers[h].pc = "idle"
    /\ UNCHANGED <<users, orders, lastWrite, last, session_vars>>
    /\ IF UserByHandle(users, w) = {}
       THEN handlers' = [handlers EXCEPT ![h] = Idle(404)]
       ELSE IF ~fromisoformat_ok(date_s)
       THEN handlers' = [handlers EXCEPT ![h] = Idle(400)]
       ELSE \E u \in UserByHandle(users, w) :
            \E existing \in upsert_existing(orders, u.id, IsoDate[date_s]) :
                handlers' = [handlers EXCEPT ![h] =
                    [pc |-> "upsert",
                     user_id |-> u.id,
                     order_date |-> IsoDate[date_s],
                     b |-> breakfast # 0,
                     l |-> lunch # 0,
                     d |-> dinner # 0,
                     existing |-> existing,
                     loaded |-> IF existing = 0 THEN NoRow ELSE orders[existing],
                     status |-> 0]]

\* helpers.py:58-70, the assignments and the commit, and the response
upsert_commit(h) ==
    LET r == handlers[h] IN
    /\ r.pc = "upsert"
    /\ UNCHANGED <<users, last, session_vars>>
    /\ IF r.existing # 0
       THEN /\ orders' = [orders EXCEPT ![r.existing] =
                    FlushUpdate(@, r.loaded, upsert_update(r.loaded, r.b, r.l, r.d))]
            /\ lastWrite' = [lastWrite EXCEPT ![r.existing] = "upsert"]
       ELSE /\ Len(orders) < MaxOrders
            /\ orders' = Append(orders, [user_id |-> r.user_id,
                                         order_date |-> r.order_date,
                                         breakfast |-> r.b,
                                         lunch |-> r.l,
                                         dinner |-> r.d,
                                         canceled |-> FALSE])
            /\ lastWrite' = Append(lastWrite, "upsert")
    /\ handlers' = [handlers EXCEPT ![h] = Idle(200)]

\* POST /orders/cancel_by_date up to the query of helpers.py:78
cancel_query(h, w, date_s) ==
    /\ handlers[h].pc = "idle"
    /\ UNCHANGED <<users, orders, lastWrite, last, session_vars>>
    /\ IF UserByHandle(users, w) = {}
       THEN handlers' = [handlers EXCEPT ![h] = Idle(404)]
       ELSE IF ~fromisoformat_ok(date_s)
       THEN handlers' = [handlers EXCEPT ![h] = Idle(404)]
       ELSE \E u \in UserByHandle(users, w) :
            \E existing \in cancel_existing(orders, u.id, IsoDate[date_s]) :
                IF existing = 0
                THEN handlers' = [handlers EXCEPT ![h] = Idle(404)]
                ELSE handlers' = [handlers EXCEPT ![h] =
                        [pc |-> "cancel",
                         user_id |-> u.id,
                         order_date |-> IsoDate[date_s],
                         b |-> FALSE, l |-> FALSE, d |-> FALSE,
                         existing |-> existing,
                         loaded |-> orders[existing],
                         status |-> 0]]

\* helpers.py:81-83, the assignment and the commit, and the response
cancel_commit(h) ==
    LET r == handlers[h] IN
    /\ r.pc = "cancel"
    /\ UNCHANGED <<users, last, session_vars>>
    /\ orders' = [orders EXCEPT ![r.existing] =
            FlushUpdate(@, r.loaded, [r.loaded EXCEPT !.canceled = TRUE])]
    /\ lastWrite' = [lastWrite EXCEPT ![r.existing] = "cancel"]
    /\ handlers' = [handlers EXCEPT ![h] = Idle(as_dict_status(Order_total_amount))]

NextConc ==
    \/ \E h \in Procs, w \in ConcHandles \cup {"w2"},
          date_s \in ConcDates \cup {"tomorrow"}, f \in ConcFlags :
            upsert_query(h, w, date_s, f[1], f[2], f[3])
    \/ \E h \in Procs : upsert_commit(h)
    \/ \E h \in Procs, w \in ConcHandles, date_s \in ConcDates :
            cancel_query(h, w, date_s)
    \/ \E h \in Procs : cancel_commit(h)

SpecConc == InitConc /\ [][NextConc]_vars

-----------------------------------------------------------------------------
(* routes.py: POST /process handled by two threads at once for one session.
   The lines of a session are one list object: chat_histories.get returns
   the object itself, append changes it in place for every holder, and the
   assignment to chat_histories[key] puts the handler's object in the dict.
   Another thread's steps may fall between the three statements. *)

\* The session of the two messages and the text each handler received
ChatKey == <<"w1", "2025-11-19">>
ChatMessages == [h \in Procs |-> IF h = "h1" THEN "hi" ELSE "hello"]

\* A handler before its message; history is the list object it holds (0: none)
\* and turns are the lines it has appended
ChatIdle == [pc |-> "idle", history |-> 0, line |-> <<>>, turns |-> <<>>]

\* chat_histories.get(key, ([], utcnow()))[0]: the session's list object, or
\* a new empty one
GetList ==
    IF ChatKey \in DOMAIN chat_histories
    THEN [lists |-> lists, history |-> chat_histories[ChatKey].list]
    ELSE [lists |-> Append(lists, <<>>), history |-> Len(lists) + 1]

\* history.append(line): the object changes for every holder, the dict too
AppendLine(h) ==
    [lists EXCEPT ![handlers[h].history] = Append(@, handlers[h].line)]

Shown(ls) ==
    [k \in DOMAIN chat_histories |->
        [chat_histories[k] EXCEPT !.lines = ls[chat_histories[k].list]]]

\* chat_histories[key] = (history, utcnow())
StoreList(h) ==
    [k \in DOMAIN chat_histories \cup {ChatKey} |->
        IF k = ChatKey
        THEN [lines |-> lists[handlers[h].history], ts |-> now,
              list |-> handlers[h].history]
        ELSE chat_histories[k]]

\* The three statements, from the handler's position `from` to `to`
get_step(h, from, to, line) ==
    /\ handlers[h].pc = from
    /\ lists' = GetList.lists
    /\ handlers' = [handlers EXCEPT ![h] =
            [@ EXCEPT !.pc = to, !.history = GetList.history, !.line = line]]
    /\ UNCHANGED <<users, orders, lastWrite, last, chat_histories, now, script, sweeper>>

append_step(h, from, to) ==
    /\ handlers[h].pc = from
    /\ lists' = AppendLine(h)
    /\ chat_histories' = Shown(AppendLine(h))
    /\ handlers' = [handlers EXCEPT ![h] =
            [@ EXCEPT !.pc = to, !.turns = Append(@, handlers[h].line)]]
    /\ UNCHANGED <<users, orders, lastWrite, last, now, script, sweeper>>

store_step(h, from, to) ==
    /\ handlers[h].pc = from
    /\ chat_histories' = StoreList(h)
    /\ handlers' = [handlers EXCEPT ![h].pc = to]
    /\ UNCHANGED <<users, orders, lastWrite, last, now, script, sweeper, lists>>

\* routes.py:203-205
hear_get(h) == get_step(h, "idle", "hear_append", <<"User", ChatMessages[h]>>)
hear_append(h) == append_step(h, "hear_append", "hear_store")
hear_store(h) == store_step(h, "hear_store", "llm")

\* routes.py:212-267: the call fails or its answer does not parse and the
\* request ends, or the answer gives the reply
call_llm(h, llm) ==
    /\ handlers[h].pc = "llm"
    /\ handlers' = [handlers EXCEPT ![h].pc =
            IF llm.kind \in {"raise", "array", "bad_counter"} THEN "done"
            ELSE "answer_get",
                                    ![h].line = <<"Bot", reply_of(llm)>>]
    /\ UNCHANGED <<users, orders, lastWrite, last, chat_histories, now, script,
                   sweeper, lists>>

\* routes.py:291-293
answer_get(h) == get_step(h, "answer_get", "answer_append", handlers[h].line)
answer_append(h) == append_step(h, "answer_append", "answer_store")
answer_store(h) == store_step(h, "answer_store", "done")

InitChat ==
    /\ users = {User(1, "w1", "Asha", {}, None)}
    /\ orders = <<>>
    /\ lastWrite = <<>>
    /\ last = Failed("add_user", 200)
    /\ handlers = [h \in Procs |-> ChatIdle]
    /\ chat_histories = <<>>
    /\ now = StartInstant
    /\ script = NotRun("2025-11-19", 1, 1, 1)
    /\ sweeper = Waiting
    /\ lists = <<>>

NextChat ==
    \/ \E h \in Procs : hear_get(h)
    \/ \E h \in Procs : hear_append(h)
    \/ \E h \in Procs : hear_store(h)
    \/ \E h \in Procs, llm \in SessionLLM : call_llm(h, llm)
    \/ \E h \in Procs : answer_get(h)
    \/ \E h \in Procs : answer_append(h)
    \/ \E h \in Procs : answer_store(h)

SpecChat == InitChat /\ [][NextChat]_vars

-----------------------------------------------------------------------------
(* routes.py: the direct handlers for two users and two dates *)

StoreDates == {"2025-11-19", "2025-11-20"}

NextStore ==
    \/ \E w \in Handles, name \in Names :
            add_user(w, name, {}, None) /\ UNCHANGED <<handlers, session_vars>>
    \/ \E w \in Handles, date_s \in StoreDates, flags \in ConcFlags :
            add_order_direct(w, date_s, flags[1], flags[2], flags[3])
                /\ UNCHANGED <<handlers, session_vars>>
    \/ \E w \in Handles, date_s \in StoreDates :
            cancel_by_date(w, date_s) /\ UNCHANGED <<handlers, session_vars>>

SpecStore == Init /\ [][NextStore]_vars

-----------------------------------------------------------------------------
(* The order store under the direct handlers *)

ValidDates == {s \in DateInputs : fromisoformat_ok(s)}

DirectOrderObj(date_s, b, l, d) ==
    [date |-> date_s, breakfast |-> b, lunch |-> l, dinner |-> d]

\* C1: every stored Order has total_amount equal to the sum of the prices of
\* its own flags (40, 70, 40), a false flag counting 0.
C1_StoredTotalIsPriceSum ==
    \A i \in 1..Len(orders) :
        LoadOrder(orders, i).total_amount = {PriceOfFlags(orders[i])}

\* C3: handled one request at a time, the table never holds two Orders for
\* the same (user, date), whether the pair's Order is canceled or not.
C3_OneOrderPerUserDate ==
    \A i, j \in 1..Len(orders) :
        (orders[i].user_id = orders[j].user_id
            /\ orders[i].order_date = orders[j].order_date) => i = j

\* An upsert was handled for a pair that had an Order, and the table holds
\* the Orders of two pairs.
C3_Witness ==
    /\ last.op = "add_order_direct"
    /\ last.before # "none"
    /\ last.ret # 0
    /\ Len(orders) = 2

\* C4: on every table the handlers can leave, for every user, valid date and
\* flags, an upsert applied a second time leaves the table as the first left it.
C4_UpsertIdempotent ==
    \A u \in users, date_s \in ValidDates, b \in Flags, l \in Flags, d \in Flags :
        \A once \in upsert_order_for_user(orders, u.id,
                                          DirectOrderObj(date_s, b, l, d)) :
            \A twice \in upsert_order_for_user(once.orders, u.id,
                                               DirectOrderObj(date_s, b, l, d)) :
                twice.orders = once.orders

\* The upsert just handled repeats the upsert handled before it.
C4_Witness ==
    /\ last.op = "add_order_direct"
    /\ last.repeat
    /\ last.ret # 0

\* C7: a cancel for a (user, date) with an active Order returns that pair's
\* Order, now canceled; a cancel for the same pair handled right after a
\* cancel that found its Order returns None (404).
C7_CancelThenNotFound ==
    /\ (last.op = "cancel_by_date" /\ last.before = "active")
        => /\ last.ret \in 1..Len(orders)
           /\ orders[last.ret].canceled
           /\ <<orders[last.ret].user_id, orders[last.ret].order_date>> = last.key
    /\ (last.op = "cancel_by_date" /\ last.repeat)
        => /\ last.ret = 0
           /\ last.status = 404

\* A cancel was handled right after a cancel of the same pair that found its
\* Order, and returned None.
C7_Witness ==
    /\ last.op = "cancel_by_date"
    /\ last.repeat
    /\ last.ret = 0
    /\ last.before = "canceled"

\* C8: a cancel for a (user, date) with no Order, or with a canceled Order
\* only, returns None (404, no exception) and writes nothing to the table.
C8_CancelNothingToCancel ==
    [][(/\ last'.op = "cancel_by_date"
        /\ last'.key # NoKey
        /\ last'.before \in {"none", "canceled"})
       => /\ last'.ret = 0
          /\ last'.status = 404
          /\ orders' = orders
          /\ lastWrite' = lastWrite
      ]_vars

\* A cancel was handled for a pair whose only Order was canceled some
\* requests earlier; it returned None.
C8_Witness ==
    /\ last.op = "cancel_by_date"
    /\ last.key # NoKey
    /\ last.before = "canceled"
    /\ ~last.repeat
    /\ last.ret = 0
    /\ last.status = 404

\* C9: an Order is canceled exactly when the last committed write to it was
\* a cancel; an upsert for a pair whose Order is canceled returns that same
\* Order, not canceled any more, and creates none.
C9_CanceledIffLastWriteCancel ==
    /\ Len(lastWrite) = Len(orders)
    /\ \A i \in 1..Len(orders) : orders[i].canceled <=> lastWrite[i] = "cancel"
    /\ (last.op = "add_order_direct" /\ last.before = "canceled")
        => /\ last.ret \in 1..Len(orders)
           /\ ~last.created
           /\ ~orders[last.ret].canceled
           /\ \A i \in 1..Len(orders) :
                (orders[i].user_id = orders[last.ret].user_id
                    /\ orders[i].order_date = orders[last.ret].order_date)
                => i = last.ret

\* An upsert was handled for a pair whose Order was canceled.
C9_Witness ==
    /\ last.op = "add_order_direct"
    /\ last.before = "canceled"
    /\ last.ret # 0
    /\ lastWrite[last.ret] = "upsert"

-----------------------------------------------------------------------------
(* The order store under concurrent handlers *)

\* C6: handlers that upsert concurrently for one (user, date) never leave two
\* Orders for that pair.
C6_OneOrderPerUserDateConcurrently ==
    \A u \in users, day \in {IsoDate[s] : s \in ConcDates} :
        Cardinality(OrdersOf(orders, u.id, day)) <= 1

\* C28: concurrent writes to one existing Order are atomic read-modify-writes:
\* the row they leave is the one some serial order of the requests leaves.
\* An upsert assigns all three flags, so in every serial order the flags of a
\* row are the three flags of one upsert request.
C28_ConcurrentWritesSerializable ==
    \A i \in 1..Len(orders) :
        \E flags \in ConcFlags :
            /\ orders[i].breakfast = (flags[1] # 0)
            /\ orders[i].lunch = (flags[2] # 0)
            /\ orders[i].dinner = (flags[3] # 0)

-----------------------------------------------------------------------------
(* The order store under POST /process *)

\* C2: an upsert for a (user, date) that has an Order replaces exactly the
\* meal flags the request carries and leaves the other flags as they were.
C2_UpsertMergesGivenFlags ==
    [][(/\ now' = now
        /\ last'.op = "process"
        /\ last'.path = "upsert"
        /\ last'.before # "none")
       => \A meal \in Meals \ last'.given :
            orders'[last'.ret][meal] = orders[last'.ret][meal]
      ]_vars

\* C5: every upsert process performs is for meals the cutoff check allows for
\* the order's date at the instant the message arrives.
C5_UpsertOnlyWithinCutoff ==
    [][(/\ now' = now
        /\ last'.op = "process"
        /\ last'.path = "upsert")
       => cutoff_allows(orders'[last'.ret].breakfast,
                        orders'[last'.ret].lunch,
                        orders'[last'.ret].dinner,
                        orders'[last'.ret].order_date, now)
      ]_vars

\* C10: an upsert whose date is missing or malformed raises before it writes
\* to the orders table, and process answers the message with a reply.
C10_InvalidDateAnswered ==
    [][(/\ now' = now
        /\ last'.op = "process"
        /\ last'.path = "upsert_raised")
       => /\ orders' = orders
          /\ lastWrite' = lastWrite
          /\ last'.reply # ""
          /\ last'.status < 500
      ]_vars

-----------------------------------------------------------------------------
(* The cutoff script *)

Today == date_of(ist(now))
TimeNow == time_of(ist(now))
TargetDate == IsoDate[script.order_date]
Printed(verdict, meals) ==
    \E i \in 1..Len(script.out) :
        script.out[i].verdict = verdict /\ script.out[i].meals = meals
RequestsBreakfastOrLunch == script.breakfast = 1 \/ script.lunch = 1

\* C11: for an order date more than one day after today, no meal is refused
\* at any time of day.
C11_FarFutureAllowed ==
    (script.ran /\ TargetDate > Today + 1)
        => /\ ~Printed("cannot", "breakfast or lunch")
           /\ ~Printed("cannot", "dinner")

\* C12: for tomorrow's date, breakfast and lunch are allowed at every time
\* before 21:30 and refused at every time after 21:30.
C12_TomorrowBreakfastLunch ==
    (script.ran /\ TargetDate = Today + 1 /\ RequestsBreakfastOrLunch)
        => /\ TimeNow < 21 * 60 + 30 => Printed("can", "breakfast or lunch")
           /\ TimeNow > 21 * 60 + 30 => Printed("cannot", "breakfast or lunch")

C12_Witness ==
    /\ script.ran /\ TargetDate = Today + 1 /\ RequestsBreakfastOrLunch
    /\ TimeNow = 21 * 60 + 31
    /\ Printed("cannot", "breakfast or lunch")

\* C13: for today's date or a past date, breakfast and lunch are refused at
\* every time of day.
C13_TodayBreakfastLunchRefused ==
    (script.ran /\ TargetDate <= Today /\ RequestsBreakfastOrLunch)
        => Printed("cannot", "breakfast or lunch")

\* C14: for today's date, dinner is allowed at every time before 12:30 and
\* refused at every time after 12:30.
C14_TodayDinner ==
    (script.ran /\ TargetDate = Today /\ script.dinner = 1)
        => /\ TimeNow < 12 * 60 + 30 => Printed("can", "dinner")
           /\ TimeNow > 12 * 60 + 30 => Printed("cannot", "dinner")

C14_Witness ==
    /\ script.ran /\ TargetDate = Today /\ script.dinner = 1
    /\ TimeNow = 12 * 60 + 31
    /\ Printed("cannot", "dinner")

\* C15: for tomorrow's date, dinner is allowed at every time of day.
C15_TomorrowDinnerAllowed ==
    (script.ran /\ TargetDate = Today + 1 /\ script.dinner = 1)
        => Printed("can", "dinner")

\* C16: a request is refused iff a requested meal fails its own rule, the
\* one reason reported is that of the first failing meal in the order
\* breakfast, lunch, dinner, and a meal whose flag is 0 prints nothing.
FailingMeals ==
    {meal \in Meals :
        /\ script[meal] = 1
        /\ IF meal = "dinner" THEN ~can_order_dinner(TargetDate, now)
           ELSE ~can_order_breakfast_lunch(TargetDate, now)}
Refusals == {i \in 1..Len(script.out) : script.out[i].verdict = "cannot"}

C16_FirstFailingMealReported ==
    script.ran
        => /\ Refusals # {} <=> FailingMeals # {}
           /\ Cardinality(Refusals) <= 1
           /\ (FailingMeals \cap {"breakfast", "lunch"} # {})
                => Printed("cannot", "breakfast or lunch")
           /\ ~RequestsBreakfastOrLunch
                => \A i \in 1..Len(script.out) : script.out[i].meals # "breakfast or lunch"
           /\ script.dinner = 0
                => \A i \in 1..Len(script.out) : script.out[i].meals # "dinner"

\* C27: the cutoffs are strict: at exactly 21:30 on the day before the order
\* date breakfast and lunch are refused, and at exactly 12:30 on the order
\* date dinner is refused.
C27_CutoffsStrict ==
    script.ran
        => /\ (TargetDate = Today + 1 /\ RequestsBreakfastOrLunch
                    /\ TimeNow = 21 * 60 + 30)
                => Printed("cannot", "breakfast or lunch")
           /\ (TargetDate = Today /\ script.dinner = 1 /\ TimeNow = 12 * 60 + 30)
                => Printed("cannot", "dinner")

-----------------------------------------------------------------------------
(* The sessions under POST /process *)

\* A step in which process handles a message (one with text and a sender)
MessageHandled ==
    /\ now' = now
    /\ last'.op = "process"
    /\ last'.path # "bad_request"
    /\ chat_histories' # chat_histories
    /\ DOMAIN chat_histories \subseteq DOMAIN chat_histories'

\* The session k has grown by the message's text and the reply, in that order
TurnsAppended(k) ==
    /\ k \in DOMAIN chat_histories'
    /\ \E sender \in Senders :
            chat_histories'[k].lines =
                history_of(chat_histories, k)
                    \o << <<"User", sender[1]>>, <<"Bot", last'.reply>> >>

\* C17: whatever branch process ends in, the user's text and the reply
\* produced are both appended to a session, in that order, when it returns.
C17_BothTurnsAppended ==
    [][MessageHandled => \E k \in DOMAIN chat_histories' : TurnsAppended(k)]_vars

\* C18: every handled message ends with a response that carries a reply
\* text; the only response of status 500 with a body is that of the branch
\* for a failed language model call.
C18_AlwaysAnswered ==
    (last.op = "process" /\ last.path # "bad_request")
        => /\ last.reply # ""
           /\ last.status = 500 => last.path = "llm_error"

\* C19: a message that upserts or cancels the order of a date has its two
\* turns appended to the session of that user and that date.
C19_SessionKeyedByResolvedDate ==
    [][(MessageHandled /\ last'.path \in {"upsert", "cancel", "cancel_none"})
        => \A u \in users' :
              u.id = last'.key[1]
                => TurnsAppended(<<u.whatsapp_id, isoformat(last'.key[2])>>)]_vars

\* C20: a session last written more than 24 hours before a message arrives
\* contributes no line to the history handed to the language model for that
\* message, whether or not the sweeper has passed.
C20_StaleSessionNotHeard ==
    [][(/\ MessageHandled
        /\ last'.session \in DOMAIN chat_histories
        /\ Stale(chat_histories, last'.session, now))
        => Len(last'.history) = 1]_vars

-----------------------------------------------------------------------------
(* The answers of the language model under POST /process *)

\* The rows of the orders table this step created or changed
RowsWritten ==
    {i \in 1..Len(orders') : i > Len(orders) \/ orders'[i] # orders[i]}

\* C23: an answer that is no JSON, or JSON of another shape than the
\* expected object, is treated as a need for clarification: the reply is the
\* raw text, the response is a normal one, and no order is written.
C23_MalformedAnswerClarifies ==
    [][(MessageHandled /\ last'.answer.kind \in {"text", "array", "bad_counter"})
        => /\ last'.path = "clarify"
           /\ last'.status = 200
           /\ last'.reply = last'.answer.text
           /\ orders' = orders
           /\ lastWrite' = lastWrite]_vars

\* C24: a message whose answer has counter 0 (ambiguous intent) writes
\* nothing to the orders table, whatever else the answer carries.
C24_AmbiguousWritesNothing ==
    [][(/\ MessageHandled
        /\ last'.answer.kind = "json"
        /\ "counter" \in DOMAIN last'.answer.parsed
        /\ last'.answer.parsed["counter"] = 0)
        => orders' = orders /\ lastWrite' = lastWrite]_vars

C24_Witness ==
    /\ last.op = "process" /\ last.path = "clarify"
    /\ last.answer.kind = "json"
    /\ last.answer.parsed["counter"] = 0
    /\ "order" \in DOMAIN last.answer.parsed
    /\ Len(orders) > 0

\* C25: a cancel that finds no active order is answered with the "no active
\* order" message, never with a confirmation of the cancellation.
C25_CancelNoneSaysNoActiveOrder ==
    (last.op = "process" /\ last.path = "cancel_none")
        => last.reply = "No active order found for the date."

\* C29: one message writes at most one row of the orders table, by one
\* cancel or one upsert and never both, and a message whose language model
\* call, parse or upsert failed writes none (nothing is tried again).
C29_OneWritePerMessage ==
    [][MessageHandled
        => /\ Cardinality(RowsWritten) <= 1
           /\ Len(orders') >= Len(orders)
           /\ last'.path \in {"llm_error", "parse_raised", "upsert_raised"}
                => orders' = orders]_vars

C29_Witness ==
    /\ last.op = "process" /\ last.path = "cancel" /\ last.ret # 0
    /\ "order" \in DOMAIN last.answer.parsed
    /\ orders[last.ret].canceled

-----------------------------------------------------------------------------
(* The users table under POST /users and POST /process *)

\* C30: there is at most one User per messaging handle, no User is ever
\* deleted, and nothing of an existing User changes except the display name,
\* which only a message changes.
C30_UsersKeptAndUnique ==
    [][/\ \A u \in users', v \in users' : u.whatsapp_id = v.whatsapp_id => u = v
       /\ \A u \in users :
            \E v \in users' :
                /\ v.id = u.id
                /\ v.whatsapp_id = u.whatsapp_id
                /\ v.age = u.age
                /\ v.address = u.address
                /\ v.username # u.username => last'.op = "process"]_vars

C30_Witness ==
    /\ last.op = "process"
    /\ \E u \in users : u.age = {30} /\ u.username = "Bina"
    /\ \E u \in users : u.username = "Unknown"

-----------------------------------------------------------------------------
(* The order store for two users and two dates *)

\* C26: a successful upsert creates one Order or changes the one Order of
\* its user and date; every other row of the table is left as it was.
C26_UpsertTouchesOneOrder ==
    [][(last'.op = "add_order_direct" /\ last'.ret # 0)
        => /\ \A i \in 1..Len(orders) : i # last'.ret => orders'[i] = orders[i]
           /\ Len(orders') = IF last'.created THEN Len(orders) + 1 ELSE Len(orders)
           /\ orders'[last'.ret].user_id = last'.key[1]
           /\ orders'[last'.ret].order_date = last'.key[2]]_vars

C26_Witness ==
    /\ last.op = "add_order_direct" /\ last.ret # 0 /\ ~last.created
    /\ \E i \in 1..Len(orders) :
            /\ i # last.ret
            /\ orders[i].user_id = orders[last.ret].user_id
            /\ orders[i].order_date # orders[last.ret].order_date
            /\ orders[i].canceled

-----------------------------------------------------------------------------
(* The sessions beside the sweeper *)

\* C21: a pass of the sweeper removes every session last written more than
\* 24 hours before the pass and keeps every session written within the last
\* 24 hours, so that a session nobody writes again is eventually removed.
C21_SweepRemovesOldKeepsFresh ==
    [][(sweeper.pc = "delete" /\ sweeper'.pc = "wait")
        => \A k \in DOMAIN chat_histories :
              IF Stale(chat_histories, k, now)
              THEN k \notin DOMAIN chat_histories'
              ELSE /\ k \in DOMAIN chat_histories'
                   /\ chat_histories'[k] = chat_histories[k]]_vars

-----------------------------------------------------------------------------
(* One session under two threads *)

Count(line, lines) == Cardinality({i \in 1..Len(lines) : lines[i] = line})

\* The lines the handlers appended, and how often the handlers of S appended
\* a line
AppendedLines ==
    UNION {{handlers[h].turns[i] : i \in 1..Len(handlers[h].turns)} : h \in Procs}

RECURSIVE AppendedBy(_, _)
AppendedBy(S, line) ==
    IF S = {} THEN 0
    ELSE LET h == CHOOSE x \in S : TRUE
         IN  Count(line, handlers[h].turns) + AppendedBy(S \ {h}, line)

\* C22: when handlers append to one session at the same time, also when the
\* session does not exist yet, no line is lost: once all have finished the
\* session holds every line each of them appended.
C22_NoAppendedTurnLost ==
    (\A h \in Procs : handlers[h].pc = "done")
        => /\ ChatKey \in DOMAIN chat_histories
           /\ \A line \in AppendedLines :
                 Count(line, chat_histories[ChatKey].lines) >= AppendedBy(Procs, line)

-----------------------------------------------------------------------------
(* The date a message's upsert or cancel is called with *)

\* The dates the answer of the language model carries: the date of its order
\* object and its own date, when they are not empty
IntentDates(llm) ==
    {d \in {parsed_of(llm)[k] : k \in DOMAIN parsed_of(llm) \cap {"date"}} : d # ""}
        \cup {d \in {order_of(llm)[k] : k \in DOMAIN order_of(llm) \cap {"date"}} : d # ""}

\* The message's helper was called (upsert or cancel)
Dispatched(r) ==
    r.op = "process" /\ r.path \in {"upsert", "upsert_raised", "cancel", "cancel_none"}

\* C31: the date an upsert or cancel of a message is applied to is the date
\* the intent carries when it carries one; else the date of the request
\* when it has one; else the day after the current date.
C31_AppliedDateByPrecedence ==
    [][(chat_histories' # chat_histories /\ Dispatched(last'))
        => IF IntentDates(last'.answer) # {}
           THEN last'.date_used \in IntentDates(last'.answer)
           ELSE IF last'.request_date # ""
           THEN last'.date_used = last'.request_date
           ELSE last'.date_used = isoformat(date_of(now) + 1)]_vars

-----------------------------------------------------------------------------
(* What a cancel leaves alone *)

\* C32: a successful cancel changes only the canceled flag of the Order it
\* found: its user, date, meals and total are what they were, the Order was
\* not canceled before, and every other row is what it was.
C32_CancelChangesOnlyCanceled ==
    [][(last'.op = "cancel_by_date" /\ last'.ret # 0)
        => /\ Len(orders') = Len(orders)
           /\ last'.ret \in 1..Len(orders)
           /\ \A i \in 1..Len(orders) :
                IF i = last'.ret
                THEN /\ ~orders[i].canceled /\ orders'[i].canceled
                     /\ \A f \in DOMAIN orders[i] \ {"canceled"} :
                            orders'[i][f] = orders[i][f]
                     /\ LoadOrder(orders', i).total_amount
                            = LoadOrder(orders, i).total_amount
                ELSE orders'[i] = orders[i]]_vars

\* A cancel has found an Order with meals while the table holds another
\* Order that is not canceled
C32_Witness ==
    /\ last.op = "cancel_by_date" /\ last.ret # 0
    /\ orders[last.ret].canceled
    /\ orders[last.ret].breakfast /\ orders[last.ret].lunch
    /\ \E i \in 1..Len(orders) :
            i # last.ret /\ ~orders[i].canceled /\ orders[i].lunch

-----------------------------------------------------------------------------
(* A session written between the sweeper's scan and its delete *)

\* C33: the sweeper removes no session that is fresh when it is removed: a
\* session the scan has listed as old and a handler has written since then
\* is still there after the delete, with the lines the handler appended.
C33_TouchedSessionSurvivesSweep ==
    [][(sweeper.pc = "delete" /\ sweeper'.pc = "wait")
        => \A k \in sweeper.keys_to_remove \cap DOMAIN chat_histories :
                ~Stale(chat_histories, k, now)
                    => /\ k \in DOMAIN chat_histories'
                       /\ chat_histories'[k].lines = chat_histories[k].lines]_vars

-----------------------------------------------------------------------------
(* A cancel for a date that does not parse *)

\* The date strings a cancel gets that do not parse
UnparsedDates == {s \in DateInputs : s # "" /\ ~fromisoformat_ok(s)}

\* C34: cancel_order_by_user_date with a date string that does not parse
\* returns None as for a missing order and does not raise, whatever the
\* table holds, and the table is neither read nor written: the cancel
\* request is answered 404 as for a missing order and every row is as before.
C34_UnparsedCancelIsNotFound ==
    [][(last'.op = "cancel_by_date" /\ last'.date_used \in UnparsedDates)
        => /\ last'.ret = 0 /\ last'.status = 404
           /\ orders' = orders /\ lastWrite' = lastWrite
           /\ \A u \in users :
                cancel_order_by_user_date(orders, u.id, last'.date_used)
                    = {Outcome(orders, 0, "none", {})}]_vars

\* A cancel for a date that does not parse was answered while the table
\* holds an Order that is not canceled
C34_Witness ==
    /\ last.op = "cancel_by_date" /\ last.date_used \in UnparsedDates
    /\ last.status = 404
    /\ \E i \in 1..Len(orders) : ~orders[i].canceled

-----------------------------------------------------------------------------
(* routes.py: GET /summary beside the direct handlers *)

\* routes.py:325, Order.query.filter_by(order_date=dt, canceled=False).all()
SummaryOrders(os, dt) ==
    {i \in 1..Len(os) : os[i].order_date = dt /\ ~os[i].canceled}

\* routes.py:326-338, the counts and the amount of the response
summary_counts(os, dt) ==
    LET breakfast_count == Cardinality({i \in SummaryOrders(os, dt) : os[i].breakfast})
        lunch_count == Cardinality({i \in SummaryOrders(os, dt) : os[i].lunch})
        dinner_count == Cardinality({i \in SummaryOrders(os, dt) : os[i].dinner})
    IN  [breakfast_count |-> breakfast_count,
         lunch_count |-> lunch_count,
         dinner_count |-> dinner_count,
         total_amount |-> breakfast_count * MEAL_PRICES["breakfast"]
                            + lunch_count * MEAL_PRICES["lunch"]
                            + dinner_count * MEAL_PRICES["dinner"]]

\* GET /summary?date=; date_arg "" stands for no date
summary(date_arg) ==
    LET date_s == IF date_arg = "" THEN isoformat(date_of(now) + 1) ELSE date_arg
    IN  /\ UNCHANGED <<users, orders, lastWrite>>
        /\ IF ~fromisoformat_ok(date_s)
           THEN last' = [Failed("summary", 400) EXCEPT !.date_used = date_s]
           ELSE last' = [Handled("summary", <<0, IsoDate[date_s]>>, 200, 0, FALSE,
                                 "none", FALSE)
                            EXCEPT !.date_used = date_s,
                                   !.counts = summary_counts(orders, IsoDate[date_s])]

SummaryDates == {"", "2025-11-19", "tomorrow"}

NextSummary ==
    \/ \E w \in Handles, name \in Names :
            add_user(w, name, {}, None) /\ UNCHANGED <<handlers, session_vars>>
    \/ \E w \in Handles, date_s \in StoreDates, flags \in ConcFlags :
            add_order_direct(w, date_s, flags[1], flags[2], flags[3])
                /\ UNCHANGED <<handlers, session_vars>>
    \/ \E w \in Handles, date_s \in StoreDates :
            cancel_by_date(w, date_s) /\ UNCHANGED <<handlers, session_vars>>
    \/ \E date_arg \in SummaryDates :
            summary(date_arg) /\ UNCHANGED <<handlers, session_vars>>

SpecSummary == Init /\ [][NextSummary]_vars

\* The sum of the totals stored with the Orders S of the table
RECURSIVE StoredTotals(_, _)
StoredTotals(os, S) ==
    IF S = {} THEN 0
    ELSE LET i == CHOOSE j \in S : TRUE
         IN  (CHOOSE total \in LoadOrder(os, i).total_amount : TRUE)
                + StoredTotals(os, S \ {i})

\* C35: after any upserts and cancels the summary for a date counts, for
\* each meal, the Orders of that date that are not canceled and have the
\* meal, and its total_amount is the sum of the totals stored with those
\* Orders; a canceled Order adds to no count and to no amount.
C35_SummaryCountsActiveOrders ==
    (last.op = "summary" /\ last.status = 200)
        => LET active == {i \in 1..Len(orders) :
                            orders[i].order_date = last.key[2] /\ ~orders[i].canceled}
           IN  /\ last.counts.breakfast_count
                    = Cardinality({i \in active : orders[i].breakfast})
               /\ last.counts.lunch_count
                    = Cardinality({i \in active : orders[i].lunch})
               /\ last.counts.dinner_count
                    = Cardinality({i \in active : orders[i].dinner})
               /\ \A i \in active : LoadOrder(orders, i).total_amount # {}
               /\ last.counts.total_amount = StoredTotals(orders, active)

====
